---- MODULE Spec2Model ----
(***************************************************************************)
(* Model of src/app.py: a Streamlit script that resolves the Alpaca keys,  *)
(* validates the sidebar inputs, fetches one bar series per requested      *)
(* symbol on a pool of five worker threads, collects the results into      *)
(* all_data, derives returns and a moving average for one symbol and       *)
(* builds a normalized comparison table.                                   *)
(*                                                                         *)
(* The script is modelled as written, with the call opened at line 127     *)
(* closed before line 130 (the listing lacks the closing parenthesis).     *)
(*                                                                         *)
(* Strings the script parses are sequences of one-character strings.       *)
(* Floating point values are exact rationals [def, num, den]; def = FALSE  *)
(* is NaN (pandas' undefined value).                                       *)
(***************************************************************************)
EXTENDS Integers, Sequences, FiniteSets, TLC

VARIABLES
    secrets,          \* st.secrets: [raises, key, secret]
    environ,          \* os.environ: [key, secret]
    key_input,        \* the two st.text_input boxes of the expander: [key, secret]
    symbols_input,    \* text of the "Symboles" box
    start_date,       \* st.date_input "Date de debut"
    end_date,         \* st.date_input "Date de fin"
    timeframe,        \* the "Periode" selectbox
    button,           \* whether "Lancer l'analyse" was clicked for this run
    provider,         \* per symbol, the answers the market-data provider may give
    latencies,        \* seconds a request to the provider may take
    pc,               \* position of the script thread
    keys,             \* (API_KEY, SECRET_KEY)
    selected_symbols, \* the parsed symbol list
    futures,          \* the futures of the executor, in submission order
    all_data,         \* dict symbol -> DataFrame, with its insertion order
    progress_bar,     \* values passed to progress_bar.progress, in order
    selected_symbol,  \* the "Choisir un symbole" selectbox
    window,           \* the moving-average slider
    normalized,       \* the comparison table
    messages,         \* st.error / st.warning calls made so far
    cache,            \* st.cache_data store of fetch_stock_data
    now,              \* wall clock, seconds
    calls             \* log of the calls made to the cached fetch_stock_data

vars == <<secrets, environ, key_input, symbols_input, start_date, end_date,
          timeframe, button, provider, latencies, pc, keys, selected_symbols, futures,
          all_data, progress_bar, selected_symbol, window, normalized,
          messages, cache, now, calls>>

widgets == <<secrets, environ, key_input, symbols_input, start_date, end_date,
             timeframe, button, provider, latencies>>

cachevars == <<cache, now, calls>>

(***************************************************************************)
(* Bounds of the model.                                                    *)
(***************************************************************************)
MaxInputLen == 3      \* longest symbols_input enumerated character by character
MaxDay == 2           \* dates are days 1..MaxDay
MaxTs == 2            \* bar timestamps 1..MaxTs in the data-variety runs
MaxRows == 6          \* longest series in the long-series runs
MaxClose == 2         \* close prices 1..MaxClose in the long-series runs
PoolSyms == 6         \* symbols requested in the wide-pool run
MaxCalls == 3         \* calls of the cached function in the cache runs
MaxTicks == 2         \* clock advances in the cache runs

(***************************************************************************)
(* Constants of the program.                                               *)
(***************************************************************************)
MAX_WORKERS == 5
TTL == 3600
MIN_WINDOW == 5
MAX_WINDOW == 50
DEFAULT_WINDOW == 20

(***************************************************************************)
(* Generic helpers.                                                        *)
(***************************************************************************)
Range(s) == {s[i] : i \in DOMAIN s}

SeqsUpTo(S, n) == UNION {[1..k -> S] : k \in 0..n}

RECURSIVE SumSeq(_, _, _)
SumSeq(s, lo, hi) == IF lo > hi THEN 0 ELSE s[lo] + SumSeq(s, lo + 1, hi)

RECURSIVE SortedSeq(_)
SortedSeq(S) ==
    IF S = {} THEN <<>>
    ELSE LET m == CHOOSE x \in S : \A y \in S : x <= y
         IN  <<m>> \o SortedSeq(S \ {m})

(***************************************************************************)
(* Python string operations used at line 101.                              *)
(***************************************************************************)
Chars == {",", " ", "a", "B"}

upper_char(c) == IF c = "a" THEN "A" ELSE IF c = "b" THEN "B" ELSE c

upper(s) == [i \in DOMAIN s |-> upper_char(s[i])]

RECURSIVE lstrip(_)
lstrip(s) == IF s # <<>> /\ Head(s) = " " THEN lstrip(Tail(s)) ELSE s

RECURSIVE rstrip(_)
rstrip(s) ==
    IF s # <<>> /\ s[Len(s)] = " " THEN rstrip(SubSeq(s, 1, Len(s) - 1)) ELSE s

strip(s) == rstrip(lstrip(s))

RECURSIVE split_acc(_, _, _)
split_acc(s, cur, acc) ==
    IF s = <<>> THEN Append(acc, cur)
    ELSE IF Head(s) = "," THEN split_acc(Tail(s), <<>>, Append(acc, cur))
    ELSE split_acc(Tail(s), Append(cur, Head(s)), acc)

split(s) == split_acc(s, <<>>, <<>>)

RECURSIVE join(_)
join(parts) ==
    IF parts = <<>> THEN <<>>
    ELSE IF Len(parts) = 1 THEN parts[1]
    ELSE parts[1] \o <<",", " ">> \o join(Tail(parts))

\* line 101: [s.strip().upper() for s in symbols_input.split(",") if s.strip()]
parse_symbols(text) ==
    LET parts == split(text)
        keep  == SelectSeq(parts, LAMBDA s : strip(s) # <<>>)
    IN  [i \in DOMAIN keep |-> upper(strip(keep[i]))]

(***************************************************************************)
(* Credentials, lines 18-45.                                               *)
(***************************************************************************)
None == "<None>"

Truthy(v) == v # None /\ v # ""

NoKeys == [key |-> None, secret |-> None, error |-> FALSE, prompted |-> FALSE]

KeyPair(k, s, prompted) ==
    [key |-> k, secret |-> s, error |-> FALSE, prompted |-> prompted]

get_alpaca_keys(sec, env, inp) ==
    IF sec.raises
    THEN [NoKeys EXCEPT !.error = TRUE]                       \* lines 43-45
    ELSE IF Truthy(sec.key) /\ Truthy(sec.secret)
    THEN KeyPair(sec.key, sec.secret, FALSE)                  \* lines 22-25
    ELSE IF Truthy(env.key) /\ Truthy(env.secret)
    THEN KeyPair(env.key, env.secret, FALSE)                  \* lines 28-31
    ELSE IF Truthy(inp.key) /\ Truthy(inp.secret)
    THEN KeyPair(inp.key, inp.secret, TRUE)                   \* lines 34-39
    ELSE [NoKeys EXCEPT !.prompted = TRUE]                    \* line 41

(***************************************************************************)
(* DataFrames: [index |-> sequence of timestamps,                          *)
(*              cols  |-> column name -> sequence of cells].               *)
(***************************************************************************)
NaN == [def |-> FALSE, num |-> 0, den |-> 1]

Val(n, d) == [def |-> TRUE, num |-> n, den |-> d]

EmptyFrame == [index |-> <<>>, cols |-> <<>>]

empty(df) == df.index = <<>> \/ DOMAIN df.cols = {}

columns(df) == DOMAIN df.cols

\* df[name] = values
set_column(df, name, values) ==
    [df EXCEPT !.cols = [c \in DOMAIN df.cols \cup {name} |->
                            IF c = name THEN values ELSE df.cols[c]]]

\* lines 144-151: bars is a sequence of [timestamp, close]
frame_of_bars(bars) ==
    IF bars = <<>> THEN EmptyFrame
    ELSE [index |-> [i \in DOMAIN bars |-> bars[i].timestamp],
          cols  |-> [c \in {"close"} |->
                        [i \in DOMAIN bars |-> Val(bars[i].close, 1)]]]

\* line 204: df['close'].pct_change()
pct_change(col) ==
    [i \in DOMAIN col |->
        IF i = 1 THEN NaN
        ELSE Val(col[i].num - col[i - 1].num, col[i - 1].num)]

\* rolling mean that needs one row more than the window
rolling_mean_late(col, w) ==
    LET nums == [i \in DOMAIN col |-> col[i].num]
    IN  [i \in DOMAIN col |->
            IF i <= w THEN NaN ELSE Val(SumSeq(nums, i - w + 1, i), w)]

\* line 212: df['close'].rolling(window=w).mean()
rolling_mean(col, w) ==
    LET nums == [i \in DOMAIN col |-> col[i].num]
    IN  [i \in DOMAIN col |->
            IF i < w THEN NaN ELSE Val(SumSeq(nums, i - w + 1, i), w)]

sma_name(w) == "SMA_" \o ToString(w)

\* transform that assigns the returns to the close column
technical_transform_overwrite(df, w) ==
    LET with_returns == set_column(df, "close", pct_change(df.cols["close"]))
    IN  set_column(set_column(with_returns, "returns", with_returns.cols["close"]),
                   sma_name(w), rolling_mean(df.cols["close"], w))

\* lines 204-212, on the DataFrame object df refers to
technical_transform(df, w) ==
    LET with_returns == set_column(df, "returns", pct_change(df.cols["close"]))
    IN  set_column(with_returns, sma_name(w),
                   rolling_mean(with_returns.cols["close"], w))

\* line 225: (data['close'] / data['close'].iloc[0]) * 100
normalize_close(df) ==
    LET col == df.cols["close"]
    IN  [index  |-> df.index,
         values |-> [i \in DOMAIN col |-> Val(col[i].num * 100, col[1].num)]]

PositionOf(seq, x) == CHOOSE i \in DOMAIN seq : seq[i] = x

\* normalized[sym] = series: the first column sets the index of the empty
\* table, every later one is aligned to the index the table already has
assign_series(table, sym, series) ==
    IF table.index = <<>>
    THEN [index |-> series.index,
          order |-> <<sym>>,
          cols  |-> [c \in {sym} |-> series.values]]
    ELSE LET aligned == [i \in DOMAIN table.index |->
                            IF table.index[i] \in Range(series.index)
                            THEN series.values[PositionOf(series.index, table.index[i])]
                            ELSE NaN]
         IN  [index |-> table.index,
              order |-> IF sym \in Range(table.order) THEN table.order
                        ELSE Append(table.order, sym),
              cols  |-> [c \in DOMAIN table.cols \cup {sym} |->
                            IF c = sym THEN aligned ELSE table.cols[c]]]

EmptyTable == [index |-> <<>>, order |-> <<>>, cols |-> <<>>]

(***************************************************************************)
(* Python dict with insertion order.                                       *)
(***************************************************************************)
EmptyDict == [order |-> <<>>, data |-> <<>>]

dict_keys(d) == Range(d.order)

dict_set(d, k, v) ==
    [order |-> IF k \in Range(d.order) THEN d.order ELSE Append(d.order, k),
     data  |-> [x \in DOMAIN d.data \cup {k} |-> IF x = k THEN v ELSE d.data[x]]]

\* lines 222-225
RECURSIVE build_normalized(_, _, _)
build_normalized(d, i, table) ==
    IF i > Len(d.order) THEN table
    ELSE LET sym  == d.order[i]
             data == d.data[sym]
         IN  IF ~empty(data) /\ "close" \in columns(data)
             THEN build_normalized(d, i + 1,
                                   assign_series(table, sym, normalize_close(data)))
             ELSE build_normalized(d, i + 1, table)

(***************************************************************************)
(* The market-data provider and fetch_stock_data, lines 133-154.           *)
(***************************************************************************)
Fail == [kind |-> "error", bars |-> <<>>]

Bars(rows) == [kind |-> "bars", bars |-> rows]

Returned(symbol, data, error) ==
    [raised |-> FALSE, symbol |-> symbol, data |-> data, error |-> error]

\* fetch_stock_data without its except clause
fetch_stock_data_uncaught(symbol, resp) ==
    IF resp.kind = "error"
    THEN [raised |-> TRUE, symbol |-> symbol, data |-> EmptyFrame, error |-> FALSE]
    ELSE Returned(symbol, frame_of_bars(resp.bars), FALSE)

\* the body of fetch_stock_data on the provider's answer resp
fetch_stock_data(symbol, resp) ==
    IF resp.kind = "error"
    THEN Returned(symbol, EmptyFrame, TRUE)                   \* lines 152-154
    ELSE LET df == frame_of_bars(resp.bars)                   \* lines 143-144
         IN  IF ~empty(df)
             THEN Returned(symbol, df, FALSE)                 \* lines 145-150
             ELSE Returned(symbol, EmptyFrame, FALSE)         \* line 151

Msg(kind, symbol) == [kind |-> kind, symbol |-> symbol]

fetch_messages(result) ==
    IF result.error THEN {Msg("fetch_error", result.symbol)} ELSE {}

(***************************************************************************)
(* st.cache_data(ttl=3600) around fetch_stock_data, line 133: the store    *)
(* maps the argument tuple to the returned pair and the time it was        *)
(* stored; an entry answers calls made less than TTL seconds after that.   *)
(* A call computes and stores under the store's lock, so it is one step.   *)
(***************************************************************************)
\* cache keyed without the date range
cache_key_no_dates(symbol, start, end, tf) == <<symbol, tf>>

cache_key(symbol, start, end, tf) == <<symbol, start, end, tf>>

cache_hit(store, key, t) == key \in DOMAIN store /\ t - store[key].stored < TTL

\* resp records the provider's answer the stored value was computed from
cache_put(store, key, value, resp, t) ==
    [k \in DOMAIN store \cup {key} |->
        IF k = key THEN [value |-> value, resp |-> resp, stored |-> t] ELSE store[k]]

TickStep == TTL \div 2 + 1

\* seconds a request to the provider may take, the clock staying in range
Durations(t) == {d \in latencies : t + d <= MaxTicks * TickStep}

\* fetch_stock_data(symbol, start, end, tf) through the decorator at time t;
\* if the provider is asked, resp is its answer and took seconds to come
cached_fetch_stock_data(store, symbol, start, end, tf, t, resp, took) ==
    LET key == cache_key(symbol, start, end, tf)
    IN  IF cache_hit(store, key, t)
        THEN [result |-> store[key].value, resp |-> store[key].resp,
              contacted |-> FALSE, store |-> store, end |-> t]
        ELSE LET result == fetch_stock_data(symbol, resp)
             IN  [result |-> result, resp |-> resp, contacted |-> TRUE,
                  store |-> cache_put(store, key, result, resp, t + took),
                  end |-> t + took]

(***************************************************************************)
(* The script, top to bottom.                                              *)
(***************************************************************************)
\* lines 47-61
LoadKeys ==
    /\ pc = "keys"
    /\ LET r == get_alpaca_keys(secrets, environ, key_input)
       IN  /\ keys' = <<r.key, r.secret>>
           /\ IF ~Truthy(r.key) \/ ~Truthy(r.secret)
              THEN /\ pc' = "stopped"
                   /\ messages' = messages \cup {Msg("config_missing", <<>>)}
                            \cup (IF r.error THEN {Msg("keys_error", <<>>)} ELSE {})
              ELSE /\ pc' = "client"
                   /\ messages' = messages
    /\ UNCHANGED <<widgets, selected_symbols, futures, all_data, progress_bar,
                   selected_symbol, window, normalized, cachevars>>

\* lines 64-75: the client constructor returns or raises
GetClient ==
    /\ pc = "client"
    /\ \E ok \in BOOLEAN :
          IF ok
          THEN pc' = "symbols" /\ messages' = messages
          ELSE pc' = "stopped" /\ messages' = messages \cup {Msg("client_error", <<>>)}
    /\ UNCHANGED <<widgets, keys, selected_symbols, futures, all_data, progress_bar,
                   selected_symbol, window, normalized, cachevars>>

\* lines 101-105
NoSymbols(symbols) == symbols = <<>>

ParseSymbols ==
    /\ pc = "symbols"
    /\ selected_symbols' = parse_symbols(symbols_input)
    /\ IF NoSymbols(selected_symbols')
       THEN pc' = "stopped" /\ messages' = messages \cup {Msg("no_symbols", <<>>)}
       ELSE pc' = "dates" /\ messages' = messages
    /\ UNCHANGED <<widgets, keys, futures, all_data, progress_bar,
                   selected_symbol, window, normalized, cachevars>>

\* date check that lets equal dates through
BadDates_strict(start, end) == start > end

\* line 116
BadDates(start, end) == start >= end

\* lines 116-118
CheckDates ==
    /\ pc = "dates"
    /\ IF BadDates(start_date, end_date)
       THEN pc' = "stopped" /\ messages' = messages \cup {Msg("bad_dates", <<>>)}
       ELSE pc' = "button" /\ messages' = messages
    /\ UNCHANGED <<widgets, keys, selected_symbols, futures, all_data, progress_bar,
                   selected_symbol, window, normalized, cachevars>>

\* lines 157-161
Button ==
    /\ pc = "button"
    /\ pc' = IF button THEN "submit" ELSE "done"
    /\ all_data' = EmptyDict
    /\ UNCHANGED <<widgets, keys, selected_symbols, futures, progress_bar,
                   selected_symbol, window, normalized, messages, cachevars>>

(***************************************************************************)
(* The executor, lines 162-173.                                            *)
(***************************************************************************)
NoResult == Returned(<<>>, EmptyFrame, FALSE)

NewFuture(sym) ==
    [sym |-> sym, state |-> "pending", resp |-> Fail, result |-> NoResult,
     consumed |-> 0]

Running == {i \in DOMAIN futures : futures[i].state = "running"}

Pending == {i \in DOMAIN futures : futures[i].state = "pending"}

NumConsumed == SumSeq([i \in DOMAIN futures |-> futures[i].consumed], 1, Len(futures))

\* a pool that starts a thread per work item
WorkerAvailable_unbounded == TRUE

\* a worker thread is free or can still be created
WorkerAvailable == Cardinality(Running) < MAX_WORKERS

\* lines 163-166: one executor.submit per entry of selected_symbols
Submit ==
    /\ pc = "submit"
    /\ LET sym == selected_symbols[Len(futures) + 1]
       IN  futures' = Append(futures, NewFuture(sym))
    /\ pc' = IF Len(futures') = Len(selected_symbols) THEN "progress" ELSE "submit"
    /\ UNCHANGED <<widgets, keys, selected_symbols, all_data, progress_bar,
                   selected_symbol, window, normalized, messages, cachevars>>

\* a worker takes the oldest queued work item
Start(i) ==
    /\ i \in Pending
    /\ \A j \in Pending : i <= j
    /\ WorkerAvailable
    /\ futures' = [futures EXCEPT ![i].state = "running"]
    /\ UNCHANGED <<widgets, pc, keys, selected_symbols, all_data, progress_bar,
                   selected_symbol, window, normalized, messages, cachevars>>

\* the worker runs the cached fetch_stock_data to its return and sets the
\* future's result
Finish(i) ==
    /\ i \in Running
    /\ \E resp \in provider[futures[i].sym], took \in Durations(now) :
          LET c == cached_fetch_stock_data(cache, futures[i].sym, start_date, end_date,
                                           timeframe, now, resp, took)
          IN  /\ futures' = [futures EXCEPT ![i].state = "finished",
                                            ![i].resp = c.resp,
                                            ![i].result = c.result]
              /\ cache' = c.store
              /\ now' = c.end
              /\ messages' = messages \cup fetch_messages(c.result)
    /\ UNCHANGED <<widgets, pc, keys, selected_symbols, all_data, progress_bar,
                   selected_symbol, window, normalized, calls>>

\* line 168
CreateProgress ==
    /\ pc = "progress"
    /\ progress_bar' = <<Val(0, 1)>>
    /\ pc' = "collect"
    /\ UNCHANGED <<widgets, keys, selected_symbols, futures, all_data,
                   selected_symbol, window, normalized, messages, cachevars>>

\* loop body without the test of line 171
store_result_unguarded(d, result) == dict_set(d, result.symbol, result.data)

\* lines 171-172
store_result(d, result) ==
    IF ~empty(result.data) THEN dict_set(d, result.symbol, result.data) ELSE d

\* progress computed from the index instead of the count
progress_value_index(i, total) == Val(i, total)

\* line 173, i being the index enumerate gives
progress_value(i, total) == Val(i + 1, total)

\* lines 169-173: one iteration of the loop over as_completed(futures)
Consume(f) ==
    /\ pc = "collect"
    /\ f \in DOMAIN futures
    /\ futures[f].state = "finished"
    /\ futures[f].consumed = 0
    /\ LET i == NumConsumed
           result == futures[f].result
       IN  IF result.raised
           THEN /\ pc' = "crashed"
                /\ UNCHANGED <<futures, all_data, progress_bar>>
           ELSE /\ futures' = [futures EXCEPT ![f].consumed = @ + 1]
                /\ all_data' = store_result(all_data, result)
                /\ progress_bar' = Append(progress_bar,
                                          progress_value(i, Len(selected_symbols)))
                /\ pc' = IF i + 1 = Len(futures) THEN "check_data" ELSE "collect"
    /\ UNCHANGED <<widgets, keys, selected_symbols,
                   selected_symbol, window, normalized, messages, cachevars>>

\* lines 175-177
CheckData ==
    /\ pc = "check_data"
    /\ IF all_data.order = <<>>
       THEN pc' = "stopped" /\ messages' = messages \cup {Msg("no_data", <<>>)}
       ELSE pc' = "detail" /\ messages' = messages
    /\ UNCHANGED <<widgets, keys, selected_symbols, futures, all_data, progress_bar,
                   selected_symbol, window, normalized, cachevars>>

\* values the slider of lines 206-211 is tried with
SliderValues ==
    {w \in MIN_WINDOW..MAX_WINDOW :
        w <= MaxRows + 1 \/ w = DEFAULT_WINDOW \/ w = MAX_WINDOW}

\* lines 186-212: df = all_data[selected_symbol] names the stored object, and
\* the two column assignments write to it
transform_selected(d, sym, w) ==
    [d EXCEPT !.data[sym] = technical_transform(@, w)]

\* lines 180-217
Detail ==
    /\ pc = "detail"
    /\ \E sym \in dict_keys(all_data), w \in SliderValues :
          /\ selected_symbol' = sym
          /\ window' = w
          /\ all_data' = transform_selected(all_data, sym, w)
    /\ pc' = "compare"
    /\ UNCHANGED <<widgets, keys, selected_symbols, futures, progress_bar,
                   normalized, messages, cachevars>>

\* lines 220-232
Compare ==
    /\ pc = "compare"
    /\ normalized' = IF Len(all_data.order) > 1
                     THEN build_normalized(all_data, 1, EmptyTable)
                     ELSE normalized
    /\ pc' = "done"
    /\ UNCHANGED <<widgets, keys, selected_symbols, futures, all_data, progress_bar,
                   selected_symbol, window, messages, cachevars>>

Next ==
    \/ LoadKeys
    \/ GetClient
    \/ ParseSymbols
    \/ CheckDates
    \/ Button
    \/ Submit
    \/ \E i \in DOMAIN futures : Start(i)
    \/ \E i \in DOMAIN futures : Finish(i)
    \/ CreateProgress
    \/ \E f \in DOMAIN futures : Consume(f)
    \/ CheckData
    \/ Detail
    \/ Compare

(***************************************************************************)
(* Initial states: the widgets and the environment before a script run.    *)
(***************************************************************************)
ScriptStart ==
    /\ pc = "keys"
    /\ keys = <<None, None>>
    /\ selected_symbols = <<>>
    /\ futures = <<>>
    /\ all_data = EmptyDict
    /\ progress_bar = <<>>
    /\ selected_symbol = <<>>
    /\ window = DEFAULT_WINDOW
    /\ normalized = EmptyTable
    /\ messages = {}
    /\ cache = <<>>
    /\ now = 0
    /\ calls = <<>>

GoodSecrets == [raises |-> FALSE, key |-> "PK1", secret |-> "SK1"]

NoSecrets == [raises |-> FALSE, key |-> None, secret |-> None]

NoEnviron == [key |-> None, secret |-> None]

NoKeyInput == [key |-> "", secret |-> ""]

\* the bars the provider holds for symbol at the timestamps T
close_at(symbol, t) == IF Head(symbol) = "A" THEN t + 1 ELSE 2 * t + 3

bars_at(symbol, T) ==
    LET ts == SortedSeq(T)
    IN  [i \in DOMAIN ts |-> [timestamp |-> ts[i], close |-> close_at(symbol, ts[i])]]

DefaultProvider(symbols) ==
    [s \in Range(symbols) |-> {Fail, Bars(bars_at(s, {1}))}]

\* every text of the symbol box up to MaxInputLen characters, every pair of
\* dates, with and without credentials, with and without the button
InputVarietyInit ==
    /\ symbols_input \in SeqsUpTo(Chars, MaxInputLen)
    /\ start_date \in 1..MaxDay
    /\ end_date \in 1..MaxDay
    /\ button \in BOOLEAN
    /\ secrets \in {GoodSecrets, NoSecrets}
    /\ environ = NoEnviron
    /\ key_input = NoKeyInput
    /\ timeframe = "1 Minute"
    /\ provider = DefaultProvider(parse_symbols(symbols_input))
    /\ latencies = {0}
    /\ ScriptStart

DataBatches ==
    {<<<<"a">>>>, <<<<"a">>, <<"a">>>>, <<<<"a">>, <<"B">>>>,
     <<<<"a">>, <<"B">>, <<"a">>>>}

\* batches with and without duplicates over every choice of the timestamps
\* the provider holds for each symbol
DataVarietyInit ==
    /\ \E batch \in DataBatches : symbols_input = join(batch)
    /\ start_date = 1
    /\ end_date = 2
    /\ button = TRUE
    /\ secrets = GoodSecrets
    /\ environ = NoEnviron
    /\ key_input = NoKeyInput
    /\ timeframe = "1 Jour"
    /\ \E held \in [Range(parse_symbols(symbols_input)) -> SUBSET (1..MaxTs)] :
          provider = [s \in DOMAIN held |-> {Fail, Bars(bars_at(s, held[s]))}]
    /\ latencies = {0, TickStep}
    /\ ScriptStart

\* one symbol whose series has up to MaxRows rows
LongSeriesInit ==
    /\ symbols_input = <<"a">>
    /\ start_date = 1
    /\ end_date = 2
    /\ button = TRUE
    /\ secrets = GoodSecrets
    /\ environ = NoEnviron
    /\ key_input = NoKeyInput
    /\ timeframe = "1 Jour"
    /\ \E n \in 1..MaxRows : \E closes \in [1..n -> 1..MaxClose] :
          provider = [s \in {<<"A">>} |->
                        {Bars([i \in 1..n |-> [timestamp |-> i, close |-> closes[i]]])}]
    /\ latencies = {0}
    /\ ScriptStart


\* every state of the three credential sources
KeysVarietyInit ==
    /\ symbols_input = <<"a">>
    /\ start_date = 1
    /\ end_date = 2
    /\ button = FALSE
    /\ secrets \in [raises : {FALSE}, key : {None, "", "PK1"}, secret : {None, "", "SK1"}]
                     \cup {[raises |-> TRUE, key |-> None, secret |-> None]}
    /\ environ \in [key : {None, "", "PK2"}, secret : {None, "", "SK2"}]
    /\ key_input \in [key : {"", "PK3"}, secret : {"", "SK3"}]
    /\ timeframe = "1 Minute"
    /\ provider = DefaultProvider(parse_symbols(symbols_input))
    /\ latencies = {0}
    /\ ScriptStart

PoolBatch == [i \in 1..PoolSyms |-> [j \in 1..i |-> "a"]]

\* more symbols than worker threads
PoolInit ==
    /\ symbols_input = join(PoolBatch)
    /\ start_date = 1
    /\ end_date = 2
    /\ button = TRUE
    /\ secrets = GoodSecrets
    /\ environ = NoEnviron
    /\ key_input = NoKeyInput
    /\ timeframe = "1 Jour"
    /\ provider = [s \in Range(parse_symbols(symbols_input)) |->
                      IF Len(s) = 1 THEN {Fail, Bars(bars_at(s, {1}))}
                      ELSE IF Len(s) = 2 THEN {Bars(bars_at(s, {1}))}
                      ELSE {Bars(<<>>)}]
    /\ latencies = {0}
    /\ ScriptStart

Init ==
    \/ InputVarietyInit
    \/ DataVarietyInit
    \/ LongSeriesInit
    \/ KeysVarietyInit
    \/ PoolInit

Spec == Init /\ [][Next]_vars

(***************************************************************************)
(* Calls of the cached fetch_stock_data one after another.                 *)
(***************************************************************************)
\* a call made at time at that returned at time done
Call(args, at, done, contacted, value) ==
    [args |-> args, at |-> at, done |-> done, contacted |-> contacted,
     value |-> value]

CachedFetch(symbol, start, end, tf) ==
    /\ Len(calls) < MaxCalls
    /\ \E resp \in provider[symbol], took \in Durations(now) :
          LET c == cached_fetch_stock_data(cache, symbol, start, end, tf, now, resp, took)
          IN  /\ calls' = Append(calls, Call(<<symbol, start, end, tf>>, now, c.end,
                                             c.contacted, c.result))
              /\ cache' = c.store
              /\ now' = c.end
    /\ UNCHANGED <<widgets, pc, keys, selected_symbols, futures, all_data,
                   progress_bar, selected_symbol, window, normalized, messages>>

\* time passes between two calls
Tick ==
    /\ now + TickStep <= MaxTicks * TickStep
    /\ now' = now + TickStep
    /\ UNCHANGED <<widgets, pc, keys, selected_symbols, futures, all_data,
                   progress_bar, selected_symbol, window, normalized, messages,
                   cache, calls>>

\* a base argument tuple and the four tuples that differ from it in one place
CacheArgs ==
    {<<<<"A">>, 1, 3, "1 Jour">>, <<<<"B">>, 1, 3, "1 Jour">>,
     <<<<"A">>, 2, 3, "1 Jour">>, <<<<"A">>, 1, 2, "1 Jour">>,
     <<<<"A">>, 1, 3, "1 Heure">>}

CacheNext ==
    \/ \E a \in CacheArgs : CachedFetch(a[1], a[2], a[3], a[4])
    \/ Tick

CacheInit ==
    /\ symbols_input = <<"a">>
    /\ start_date = 1
    /\ end_date = 3
    /\ button = TRUE
    /\ secrets = GoodSecrets
    /\ environ = NoEnviron
    /\ key_input = NoKeyInput
    /\ timeframe = "1 Jour"
    /\ provider = [s \in {<<"A">>, <<"B">>} |-> {Fail, Bars(bars_at(s, {1}))}]
    /\ latencies = {0, TickStep}
    /\ ScriptStart

CacheSpec == CacheInit /\ [][CacheNext]_vars

\* the scheduler runs every thread that can run and the provider answers
\* every request, with bars or with an error
FairSpec == Spec /\ WF_vars(Next)

(***************************************************************************)
(* Properties.                                                             *)
(***************************************************************************)
\* every future was submitted, has finished and was taken from as_completed
LoopDone ==
    /\ futures # <<>>
    /\ Len(futures) = Len(selected_symbols)
    /\ \A i \in DOMAIN futures : futures[i].consumed = 1

HasRows(i) == ~empty(futures[i].result.data)

\* C1: once the aggregation loop has consumed every completion, the keys of
\* all_data are exactly the requested symbols for which a fetch_stock_data
\* call returned at least one row: none outside the request, none with an
\* empty series, none with data missing.
C1_KeysAreSymbolsWithRows ==
    LoopDone =>
        /\ dict_keys(all_data) = {futures[i].sym : i \in {j \in DOMAIN futures : HasRows(j)}}
        /\ dict_keys(all_data) \subseteq Range(selected_symbols)
        /\ DOMAIN all_data.data = dict_keys(all_data)
        /\ \A sym \in dict_keys(all_data) : ~empty(all_data.data[sym])

C1_Witness ==
    /\ LoopDone
    /\ \E i, j, k \in DOMAIN futures :
          /\ i # j
          /\ futures[i].sym = futures[j].sym
          /\ HasRows(i)
          /\ HasRows(j)
          /\ futures[k].resp = Bars(<<>>)
          /\ futures[k].sym \notin dict_keys(all_data)

\* C2: fetch_stock_data always returns (symbol, series) and never raises: a
\* failure is reported with a message naming the symbol and returned as
\* (symbol, empty series); so a batch with a failing symbol goes on, the run
\* does not halt, and the result holds exactly the symbols that had data.
C2_FetchFailsSoft ==
    /\ pc # "crashed"
    /\ \A i \in DOMAIN futures :
          futures[i].state = "finished" =>
             /\ ~futures[i].result.raised
             /\ futures[i].result.symbol = futures[i].sym
             /\ futures[i].resp.kind = "error" =>
                   /\ empty(futures[i].result.data)
                   /\ Msg("fetch_error", futures[i].sym) \in messages
    /\ pc \in {"submit", "progress", "collect"} => ENABLED Next
    /\ LoopDone =>
          dict_keys(all_data) =
             {futures[i].sym : i \in {j \in DOMAIN futures :
                 futures[j].resp.kind = "bars" /\ futures[j].resp.bars # <<>>}}

C2_Witness ==
    /\ LoopDone
    /\ pc = "done"
    /\ \E i, j \in DOMAIN futures :
          /\ futures[i].resp.kind = "error"
          /\ futures[i].sym \notin dict_keys(all_data)
          /\ Msg("fetch_error", futures[i].sym) \in messages
          /\ futures[j].sym \in dict_keys(all_data)

\* C3: the values passed to the progress bar are non-decreasing and lie in
\* [0,1], the k-th completion reports k / len(selected_symbols), and the
\* value after the last completion is exactly 1, in every completion order
\* and with duplicate symbols.
C3_ProgressMonotoneToOne ==
    LET n == Len(selected_symbols)
        p == progress_bar
    IN  /\ \A k \in 1..(Len(p) - 1) :
              /\ p[k + 1].def
              /\ p[k + 1].den > 0
              /\ p[k + 1].num * n = k * p[k + 1].den
              /\ 0 <= p[k + 1].num
              /\ p[k + 1].num <= p[k + 1].den
              /\ p[k].num * p[k + 1].den <= p[k + 1].num * p[k].den
        /\ p # <<>> => p[1] = Val(0, 1)
        /\ LoopDone => Len(p) = n + 1 /\ p[Len(p)].num = p[Len(p)].den

C3_Witness ==
    /\ LoopDone
    /\ Len(progress_bar) = 4
    /\ selected_symbols[1] = selected_symbols[3]
    /\ Len(all_data.order) = 2
    /\ all_data.order[1] = selected_symbols[2]

C4_CredentialsMissing == pc # "keys" /\ (~Truthy(keys[1]) \/ ~Truthy(keys[2]))

C4_SymbolListEmpty == \A i \in DOMAIN symbols_input : symbols_input[i] \in {",", " "}

\* C4: no fetch task is submitted in a run in which the credentials are
\* missing, the parsed symbol list is empty or start_date >= end_date: the
\* run halts with a message before the worker pool is created.
C4_NoFetchOnInvalidInput ==
    (C4_CredentialsMissing \/ C4_SymbolListEmpty \/ start_date >= end_date) =>
        /\ futures = <<>>
        /\ pc \in {"keys", "client", "symbols", "dates", "stopped"}
        /\ pc = "stopped" => messages # {}

C4_Witness ==
    /\ pc = "stopped"
    /\ button
    /\ start_date > end_date
    /\ selected_symbols # <<>>
    /\ Msg("bad_dates", <<>>) \in messages
    /\ futures = <<>>

C5_Complete(src) == Truthy(src.key) /\ Truthy(src.secret)

C5_Expected ==
    IF ~secrets.raises /\ C5_Complete(secrets) THEN <<secrets.key, secrets.secret>>
    ELSE IF C5_Complete(environ) THEN <<environ.key, environ.secret>>
    ELSE IF C5_Complete(key_input) THEN <<key_input.key, key_input.secret>>
    ELSE <<None, None>>

\* C5: get_alpaca_keys returns the pair of the first of secrets, environment,
\* input whose key and secret are both non-empty, and (None, None) only when
\* none of the three is complete, also when an earlier source is unavailable.
C5_FirstCompleteSourceWins == pc # "keys" => keys = C5_Expected

C6_Fresh(j) ==
    {i \in 1..(j - 1) :
        /\ calls[i].args = calls[j].args
        /\ calls[i].contacted
        /\ calls[j].at - calls[i].done < TTL}

\* C6: a call of fetch_stock_data made less than TTL seconds after a call
\* with the same (symbol, start, end, timeframe) returned from the provider
\* returns that call's pair without contacting the provider; a call after
\* the TTL, or with any argument changed, contacts the provider.
C6_CachedWithinTtl ==
    \A j \in DOMAIN calls :
        /\ C6_Fresh(j) # {} =>
              /\ ~calls[j].contacted
              /\ \A i \in C6_Fresh(j) : calls[j].value = calls[i].value
        /\ C6_Fresh(j) = {} => calls[j].contacted

C6_Witness ==
    /\ Len(calls) = 3
    /\ calls[1].args = calls[2].args
    /\ calls[2].args = calls[3].args
    /\ calls[1].contacted
    /\ ~calls[2].contacted
    /\ calls[2].at > calls[1].at
    /\ calls[3].contacted
    /\ calls[3].value # calls[1].value

\* C7: in the normalized table every included symbol's column is 100 at
\* that symbol's own first timestamp, also when the symbols' timestamp sets
\* differ.
C7_EveryColumnStartsAt100 ==
    (pc = "done" /\ normalized.order # <<>>) =>
        \A sym \in Range(normalized.order) :
            LET first == all_data.data[sym].index[1]
            IN  /\ first \in Range(normalized.index)
                /\ LET cell == normalized.cols[sym][PositionOf(normalized.index, first)]
                   IN  cell.def /\ cell.num = 100 * cell.den

C8_Closes == [i \in DOMAIN all_data.data[selected_symbol].index |->
                all_data.data[selected_symbol].cols["close"][i].num]

\* C8: for N rows and window W in 5..50, the moving average has W-1 leading
\* undefined values followed by N-W+1 means of the trailing W closes when
\* W <= N and is entirely undefined when W > N; returns is undefined at row
\* 0 only, row i > 0 being close[i]/close[i-1] - 1.
C8_TransformShape ==
    (pc \in {"compare", "done"} /\ selected_symbol \in dict_keys(all_data)) =>
        LET df  == all_data.data[selected_symbol]
            N   == Len(df.index)
            W   == window
            sma == df.cols[sma_name(W)]
            ret == df.cols["returns"]
        IN  /\ W \in MIN_WINDOW..MAX_WINDOW
            /\ Len(sma) = N
            /\ Len(ret) = N
            /\ W <= N =>
                  /\ \A i \in 1..(W - 1) : ~sma[i].def
                  /\ \A i \in W..N :
                        /\ sma[i].def
                        /\ sma[i].num * W = SumSeq(C8_Closes, i - W + 1, i) * sma[i].den
                  /\ Cardinality({i \in 1..N : sma[i].def}) = N - W + 1
            /\ W > N => \A i \in 1..N : ~sma[i].def
            /\ ~ret[1].def
            /\ \A i \in 2..N :
                  /\ ret[i].def
                  /\ ret[i].num * C8_Closes[i - 1]
                        = (C8_Closes[i] - C8_Closes[i - 1]) * ret[i].den

C8_Witness ==
    /\ pc = "done"
    /\ selected_symbol \in dict_keys(all_data)
    /\ window < Len(all_data.data[selected_symbol].index)
    /\ \E i \in DOMAIN C8_Closes : C8_Closes[i] # C8_Closes[1]

C10_Fetched(sym) ==
    {futures[i].result.data : i \in {j \in DOMAIN futures :
        futures[j].consumed = 1 /\ futures[j].result.symbol = sym /\ HasRows(j)}}

\* C10 as stated: computing the returns and moving-average columns leaves
\* all_data unchanged, every stored series being the series as fetched.
C10_TransformLeavesAllData ==
    \A sym \in dict_keys(all_data) : all_data.data[sym] \in C10_Fetched(sym)

\* C10 as amended: the transform adds the columns returns and SMA_<window>
\* to the series stored for the selected symbol and changes nothing else:
\* the fetched columns and the index of every stored series, and every
\* other symbol's series, stay as fetched.
C10_TransformAddsTwoColumns ==
    \A sym \in dict_keys(all_data) :
        \E fetched \in C10_Fetched(sym) :
            LET stored == all_data.data[sym]
            IN  /\ stored.index = fetched.index
                /\ \A c \in columns(fetched) :
                      c \in columns(stored) /\ stored.cols[c] = fetched.cols[c]
                /\ columns(stored) =
                      IF pc \in {"compare", "done"} /\ sym = selected_symbol
                      THEN columns(fetched) \cup {"returns", sma_name(window)}
                      ELSE columns(fetched)

C10_Witness ==
    /\ pc = "done"
    /\ Len(all_data.order) = 2
    /\ selected_symbol = all_data.order[2]
    /\ normalized.order = all_data.order

====
